---- MODULE Spec2Model ----
(***************************************************************************)
(* Model of fonepay-node's response verification,                          *)
(* src/src/core/verifyResponse.ts.                                         *)
(*                                                                         *)
(* Strings are sequences of one-character strings.  A response payload is  *)
(* either Null (null/undefined) or a function from the keys it carries to  *)
(* their string values; `f in response` is f \in DOMAIN response.          *)
(*                                                                         *)
(* The state machine is one callback: the gateway composes and signs a     *)
(* payload, the redirect carries it through the payer's browser (where it  *)
(* can be edited), and the merchant backend calls verifyResponse on what   *)
(* arrives.                                                                *)
(***************************************************************************)
EXTENDS Integers, Sequences, FiniteSets, TLC

VARIABLES secretKey, response, edits, pc, out

vars == <<secretKey, response, edits, pc, out>>

\* ------------------------------------------------------------------ bounds

\* Number of edits (gateway's choices of field values plus in-transit
\* modifications) made to one payload.
MaxEdits == 2

\* In-transit replacement of a DV character is explored on the first
\* MaxDVPos characters (the claims quantify over every position).
MaxDVPos == 1

\* ------------------------------------------------------------- characters

\* null/undefined: told apart from every payload, the empty object included.
Null == [null |-> <<>>]

HexLower == <<"0","1","2","3","4","5","6","7","8","9","a","b","c","d","e","f">>
HexUpper == <<"0","1","2","3","4","5","6","7","8","9","A","B","C","D","E","F">>

\* Characters that occur in field values and keys of the model.  The position
\* of a character is its code in the modelled keyed hash.
Alphabet == <<"s","u","c","e","f","l","S","i","d","a",",">>

Range(s) == {s[i] : i \in 1..Len(s)}

CodeOf == [c \in Range(Alphabet) |-> CHOOSE i \in 1..Len(Alphabet) : Alphabet[i] = c]

Code(c) == CodeOf[c]

\* ---------------------------------------------------------------- protocol

\* RESPONSE_CODE.SUCCESSFUL
SUCCESSFUL == <<"s","u","c","c","e","s","s","f","u","l">>

\* The order with the two amounts exchanged.
orderSwapped == <<"PRN", "PID", "PS", "RC", "UID", "BC", "INI", "R_AMT", "P_AMT">>

\* const order = [...]
order == <<"PRN", "PID", "PS", "RC", "UID", "BC", "INI", "P_AMT", "R_AMT">>

\* The keys of FonepayResponse.
ResponseKeys == Range(order) \cup {"DV"}

\* ----------------------------------------------------------- input domains

Keys == {<<>>, <<"a">>, <<"i">>}

\* The key the gateway shares with the merchant.
GatewayKey == <<"a">>

Values == {<<>>, <<"a">>, <<",">>}

RCValues == {SUCCESSFUL,
             <<"S","u","c","c","e","s","s","f","u","l">>,
             <<"f","a","i","l","e","d">>}

FieldValues(f) == IF f = "RC" THEN RCValues ELSE Values

\* Characters an in-transit edit writes into DV: a hex digit, a non-hex
\* character.
DVTamperChars == {"0", "z"}

\* The payload the gateway starts from.
BasePayload == [f \in Range(order) |-> IF f = "RC" THEN SUCCESSFUL ELSE <<"a">>]

\* ------------------------------------------------------------ pure helpers

RECURSIVE Join(_, _)
\* Array.prototype.join: the elements separated by sep.
Join(parts, sep) ==
    IF Len(parts) = 0 THEN <<>>
    ELSE IF Len(parts) = 1 THEN parts[1]
    ELSE parts[1] \o sep \o Join(Tail(parts), sep)

\* response[key]: undefined when the key is absent, which join renders as
\* the empty string.
Get(r, f) == IF f \in DOMAIN r THEN r[f] ELSE <<>>

HexValue ==
    [c \in Range(HexLower) \cup Range(HexUpper) |->
        IF c \in Range(HexLower) THEN (CHOOSE i \in 1..16 : HexLower[i] = c) - 1
        ELSE (CHOOSE i \in 1..16 : HexUpper[i] = c) - 1]

\* Value of one hex digit, either letter case; -1 for any other character.
unhex(c) == IF c \in DOMAIN HexValue THEN HexValue[c] ELSE -1

\* The number of leading character pairs of s that are two hex digits.
hexPairs(s) ==
    LET bad == {i \in 1..(Len(s) \div 2) : unhex(s[2 * i - 1]) < 0 \/ unhex(s[2 * i]) < 0}
    IN  IF bad = {} THEN Len(s) \div 2
        ELSE (CHOOSE i \in bad : \A j \in bad : i <= j) - 1

\* A decoder that loses the low digit of every pair.
hexDecodeIgnoresLow(s) == [i \in 1..hexPairs(s) |-> 16 * unhex(s[2 * i - 1])]

\* Buffer.from(s, "hex"): pairs of hex digits become bytes; decoding stops
\* at the first pair that is not two hex digits, and a trailing single
\* character is dropped.  Nothing is thrown for a string.
hexDecode(s) == [i \in 1..hexPairs(s) |-> 16 * unhex(s[2 * i - 1]) + unhex(s[2 * i])]

\* ------------------------------------------------------------- keyed hash

MaxLenOf(S) == CHOOSE n \in 0..64 : (\E s \in S : Len(s) = n) /\ (\A s \in S : Len(s) <= n)

KeyWidth == MaxLenOf(Keys)

MsgWidth == (Len(order) - 1) * MaxLenOf(Values) + (Len(order) - 1) + MaxLenOf(RCValues)

\* The codes of s, zero-filled to at least w entries.
Pad(s, w) ==
    [i \in 1..(IF Len(s) > w THEN Len(s) ELSE w) |-> IF i <= Len(s) THEN Code(s[i]) ELSE 0]

\* generateHmacSha512(message, key): the digest as a lowercase hex string of
\* even length.  HMAC-SHA512 is modelled as an ideal keyed hash: a
\* fixed-width encoding that is injective on the keys and messages of the
\* model (distinct (key, message) pairs get distinct digests).
generateHmacSha512(message, key) ==
    LET n == Pad(key, KeyWidth) \o Pad(message, MsgWidth)
        e == IF Len(n) % 2 = 0 THEN n ELSE n \o <<0>>
    IN  [i \in 1..Len(e) |-> HexLower[e[i] + 1]]

\* The message the gateway signs: the nine values in protocol order, comma
\* separated.
GatewayMessage(r) ==
    r["PRN"] \o <<",">> \o r["PID"] \o <<",">> \o r["PS"] \o <<",">> \o r["RC"] \o <<",">>
    \o r["UID"] \o <<",">> \o r["BC"] \o <<",">> \o r["INI"] \o <<",">> \o r["P_AMT"]
    \o <<",">> \o r["R_AMT"]

\* ---------------------------------------------------------- verifyResponse

NoHash == <<"none">>
NoMessage == <<"none">>

\* What one call leaves behind: how the body completed ("return" or
\* "throw"), the value returned, the log entry (level, message, the fields
\* the message names), the steps that ran, the message hashed and the hash.
Completion(kind, ret, level, msg, missing, steps, message, hash) ==
    [kind |-> kind, ret |-> ret, level |-> level, msg |-> msg, missing |-> missing,
     steps |-> steps, message |-> message, hash |-> hash]

Throw(msg, missing, steps, message, hash) ==
    Completion("throw", FALSE, "none", msg, missing, steps, message, hash)

\* The input check without the secret key.
validInputResponseOnly(r, key) == r # Null

\* if (!response || !secretKey)
validInput(r, key) == r # Null /\ key # <<>>

\* No status gate.
statusGateAlways(r) == TRUE

\* A status gate that ignores letter case.
statusGateIgnoreCase(r) ==
    "RC" \in DOMAIN r /\ [i \in 1..Len(r["RC"]) |-> IF r["RC"][i] = "S" THEN "s" ELSE r["RC"][i]] = SUCCESSFUL

\* response.RC !== RESPONSE_CODE.SUCCESSFUL, negated; an absent RC reads as
\* undefined, which is not the sentinel.
statusGatePasses(r) == "RC" \in DOMAIN r /\ r["RC"] = SUCCESSFUL

\* A field check that stops one field short.
missingFieldsSkipLast(ord, r) == SelectSeq(SubSeq(ord, 1, Len(ord) - 1), LAMBDA f : f \notin DOMAIN r)

\* order.filter((field) => !(field in response))
missingFields(ord, r) == SelectSeq(ord, LAMBDA f : f \notin DOMAIN r)

\* order.map((key) => response[key]).join(",")
concatenatedValues(ord, r) == Join([i \in 1..Len(ord) |-> Get(r, ord[i])], <<",">>)

\* A comparison of the byte lengths alone.
timingSafeEqualLengthOnly(a, b, steps, message, hash) ==
    Completion("return", Len(a) = Len(b), "none", "", <<>>, steps, message, hash)

\* crypto.timingSafeEqual(a, b): throws a RangeError when the byte lengths
\* differ, otherwise tells whether the byte sequences are equal.
timingSafeEqual(a, b, steps, message, hash) ==
    IF Len(a) # Len(b)
    THEN Throw("RangeError", <<>>, steps, message, hash)
    ELSE Completion("return", a = b, "none", "", <<>>, steps, message, hash)

\* The try block, with the field order as a parameter.  fault is what the
\* hashing helper does: "none" (returns the digest), "empty" (returns an
\* empty string) or "throw".
TryBlock(ord, r, key, fault) ==
    IF ~validInput(r, key)
    THEN Throw("Required", <<>>, {}, NoMessage, NoHash)
    ELSE IF ~statusGatePasses(r)
    THEN Completion("return", FALSE, "info", "ResponseCode", <<>>, {"gate"}, NoMessage, NoHash)
    ELSE LET missing == missingFields(ord, r) IN
    IF Len(missing) > 0
    THEN Throw("Missing", missing, {"gate", "fields"}, NoMessage, NoHash)
    ELSE LET message == concatenatedValues(ord, r) IN
    IF fault = "throw"
    THEN Throw("HashThrew", <<>>, {"gate", "fields", "hash"}, message, NoHash)
    ELSE LET calculatedHash == IF fault = "empty" THEN <<>>
                               ELSE generateHmacSha512(message, key) IN
    IF calculatedHash = <<>>
    THEN Throw("HashFailed", <<>>, {"gate", "fields", "hash"}, message, calculatedHash)
    ELSE IF "DV" \notin DOMAIN r
    THEN \* Buffer.from(undefined, "hex") throws a TypeError
         Throw("TypeError", <<>>, {"gate", "fields", "hash", "decode"}, message, calculatedHash)
    ELSE timingSafeEqual(hexDecode(calculatedHash), hexDecode(r["DV"]),
                         {"gate", "fields", "hash", "decode", "compare"},
                         message, calculatedHash)

\* A catch that lets the comparison's RangeError through.
CatchRethrowsRange(c) ==
    IF c.kind = "throw" /\ c.msg # "RangeError"
    THEN [c EXCEPT !.kind = "return", !.ret = FALSE, !.level = "error"]
    ELSE c

\* A catch that returns false without logging.
CatchSilent(c) ==
    IF c.kind = "throw"
    THEN [c EXCEPT !.kind = "return", !.ret = FALSE]
    ELSE c

\* catch (error) { console.error(...); return false; }
Catch(c) ==
    IF c.kind = "throw"
    THEN [c EXCEPT !.kind = "return", !.ret = FALSE, !.level = "error"]
    ELSE c

VerifyWithOrder(ord, r, key, fault) == Catch(TryBlock(ord, r, key, fault))

verifyResponse(r, key, fault) == VerifyWithOrder(order, r, key, fault)

\* ------------------------------------------------------------------ state

NotCalled == Completion("none", FALSE, "none", "", <<>>, {}, NoMessage, NoHash)

Faults == {"none", "empty", "throw"}

Init ==
    /\ secretKey \in Keys
    /\ response = BasePayload
    /\ edits = 0
    /\ pc = "gateway"
    /\ out = NotCalled

\* The gateway (before signing) or an in-transit edit gives field f the
\* value v.
SetField(f, v) ==
    /\ pc \in {"gateway", "transit"}
    /\ response # Null
    /\ edits < MaxEdits
    /\ Get(response, f) # v \/ f \notin DOMAIN response
    /\ response' = [k \in DOMAIN response \cup {f} |-> IF k = f THEN v ELSE response[k]]
    /\ edits' = edits + 1
    /\ UNCHANGED <<secretKey, pc, out>>

\* The gateway attaches DV, the keyed hash of the nine values, and redirects.
Sign ==
    /\ pc = "gateway"
    /\ response' = [k \in DOMAIN response \cup {"DV"} |->
                       IF k = "DV" THEN generateHmacSha512(GatewayMessage(response), GatewayKey)
                       ELSE response[k]]
    /\ pc' = "transit"
    /\ UNCHANGED <<secretKey, edits, out>>

\* A query parameter is removed in transit.
DropField(f) ==
    /\ pc = "transit"
    /\ response # Null
    /\ edits < MaxEdits
    /\ f \in DOMAIN response
    /\ response' = [k \in DOMAIN response \ {f} |-> response[k]]
    /\ edits' = edits + 1
    /\ UNCHANGED <<secretKey, pc, out>>

EditDV(dv) ==
    /\ pc = "transit"
    /\ response # Null
    /\ edits < MaxEdits
    /\ "DV" \in DOMAIN response
    /\ dv # response["DV"]
    /\ response' = [response EXCEPT !["DV"] = dv]
    /\ edits' = edits + 1
    /\ UNCHANGED <<secretKey, pc, out>>

UpperCase(s) == [i \in 1..Len(s) |-> IF unhex(s[i]) >= 0 THEN HexUpper[unhex(s[i]) + 1] ELSE s[i]]

\* DV arrives in upper case.
UpperCaseDV == EditDV(UpperCase(response["DV"]))

\* A character is appended to DV.
AppendDV(c) == EditDV(response["DV"] \o <<c>>)

\* The last character of DV is lost.
TruncateDV ==
    /\ response # Null /\ "DV" \in DOMAIN response /\ Len(response["DV"]) > 0
    /\ EditDV(SubSeq(response["DV"], 1, Len(response["DV"]) - 1))

\* Character i of DV is replaced by c.
ReplaceDV(i, c) ==
    /\ response # Null /\ "DV" \in DOMAIN response /\ i <= Len(response["DV"])
    /\ EditDV([response["DV"] EXCEPT ![i] = c])

\* The host passes no payload at all.
NoPayload ==
    /\ pc = "transit"
    /\ response # Null
    /\ edits < MaxEdits
    /\ response' = Null
    /\ edits' = edits + 1
    /\ UNCHANGED <<secretKey, pc, out>>

\* The merchant backend calls verifyResponse(response, secretKey).
Verify(fault) ==
    /\ pc = "transit"
    /\ out' = verifyResponse(response, secretKey, fault)
    /\ pc' = "done"
    /\ UNCHANGED <<secretKey, response, edits>>

Next ==
    \/ \E f \in Range(order) : \E v \in FieldValues(f) : SetField(f, v)
    \/ Sign
    \/ \E f \in ResponseKeys : DropField(f)
    \/ UpperCaseDV
    \/ \E c \in DVTamperChars : AppendDV(c)
    \/ TruncateDV
    \/ \E i \in 1..MaxDVPos : \E c \in DVTamperChars : ReplaceDV(i, c)
    \/ NoPayload
    \/ \E fault \in Faults : Verify(fault)

Spec == Init /\ [][Next]_vars

\* ----------------------------------------------------------------- claims

Done == pc = "done"

\* The nine non-DV fields, written out.
RequiredFields == {"PRN", "PID", "PS", "RC", "UID", "BC", "INI", "P_AMT", "R_AMT"}

RCIsSentinel(r) == "RC" \in DOMAIN r /\ r["RC"] = SUCCESSFUL

\* C1: every call ends by returning true or false; no exception reaches the
\* caller, whatever the payload, DV and key are.
C1_Total == Done => out.kind = "return" /\ out.ret \in BOOLEAN

\* A call in which DV decoded to a byte length other than the digest's.
C1_Witness == Done /\ out.msg = "RangeError" /\ out.kind = "return" /\ out.ret = FALSE

\* C2: a call returns true only if RC is the sentinel, the nine fields are
\* all present, the keyed hash of the canonical message was produced and is
\* non-empty, and the bytes of the digest equal the bytes decoded from DV.
C2_TrueOnlyIf ==
    Done /\ out.ret =>
        /\ response # Null
        /\ RCIsSentinel(response)
        /\ RequiredFields \subseteq DOMAIN response
        /\ out.hash # NoHash /\ out.hash # <<>>
        /\ out.hash = generateHmacSha512(GatewayMessage(response), secretKey)
        /\ "DV" \in DOMAIN response
        /\ hexDecode(out.hash) = hexDecode(response["DV"])

\* An accepted call.
C2_Witness == Done /\ out.ret /\ "compare" \in out.steps

\* C3: with a payload and a non-empty key, an RC that is not exactly the
\* sentinel (absent included) gives false, with no field check, no hash and
\* an informational log entry.
C3_StatusGate ==
    Done /\ response # Null /\ secretKey # <<>> /\ ~RCIsSentinel(response) =>
        /\ out.ret = FALSE
        /\ "fields" \notin out.steps
        /\ "hash" \notin out.steps
        /\ out.hash = NoHash /\ out.message = NoMessage
        /\ out.level = "info" /\ out.msg = "ResponseCode"

\* A call rejected for an RC that differs from the sentinel in letter case only.
C3_Witness ==
    /\ Done /\ response # Null /\ secretKey # <<>>
    /\ "RC" \in DOMAIN response
    /\ response["RC"] = <<"S","u","c","c","e","s","s","f","u","l">>
    /\ out.level = "info"

\* C4: a payload lacking any of the nine fields is never accepted.
C4_MissingFieldFalse ==
    Done /\ ~(RequiredFields \subseteq DOMAIN response) => out.ret = FALSE

\* A payload with the sentinel RC and a valid DV of which one field was
\* removed, rejected by the field check.
C4_Witness ==
    /\ Done /\ response # Null /\ RCIsSentinel(response)
    /\ "R_AMT" \notin DOMAIN response /\ "DV" \in DOMAIN response
    /\ out.msg = "Missing" /\ out.ret = FALSE

\* C5 as stated: whenever one of the nine fields is missing (payload and key
\* given), the call is rejected with an error-level log entry that names the
\* missing fields.
C5_Original ==
    Done /\ response # Null /\ secretKey # <<>> /\ ~(RequiredFields \subseteq DOMAIN response) =>
        /\ out.level = "error" /\ out.msg = "Missing"
        /\ Range(out.missing) = RequiredFields \ DOMAIN response

\* C5 amended: the same, when RC is present and is the sentinel.
C5_MissingIsValidationError ==
    /\ Done /\ response # Null /\ secretKey # <<>> /\ RCIsSentinel(response)
    /\ ~(RequiredFields \subseteq DOMAIN response)
    => /\ out.ret = FALSE
       /\ out.level = "error" /\ out.msg = "Missing"
       /\ Range(out.missing) = RequiredFields \ DOMAIN response
       /\ "hash" \notin out.steps

\* Two fields missing under the sentinel RC, both named in the error.
C5_Witness ==
    /\ Done /\ response # Null /\ secretKey # <<>> /\ RCIsSentinel(response)
    /\ Cardinality(RequiredFields \ DOMAIN response) = 2
    /\ out.level = "error" /\ Len(out.missing) = 2

\* C6: a null payload or an empty key gives false, returned not thrown,
\* before the status gate, the field check and the hash.
C6_InputRejectedFirst ==
    Done /\ (response = Null \/ secretKey = <<>>) =>
        /\ out.kind = "return" /\ out.ret = FALSE
        /\ out.steps = {}
        /\ out.hash = NoHash
        /\ out.level = "error" /\ out.msg = "Required"

\* An empty key with a payload whose RC would not pass the gate: the
\* rejection is the input check's, not the gate's.
C6_Witness ==
    /\ Done /\ secretKey = <<>> /\ response # Null /\ ~RCIsSentinel(response)
    /\ out.msg = "Required"

\* What the same call returns for another payload or field order (the
\* hashing helper working).
Accepts(ord, r) == VerifyWithOrder(ord, r, secretKey, "none").ret

\* Characters a change of DV writes: hex digits in both letter cases (the
\* letters the modelled digests contain among them) and a character that is
\* no hex digit.
DVChars == {"0", "1", "a", "A", "b", "B", "F", "z"}

\* r with character i of key k replaced by c.
WithChar(r, k, i, c) == [r EXCEPT ![k] = [@ EXCEPT ![i] = c]]

\* Every single-character change of one of the nine fields is rejected.
FieldTamperRejected ==
    \A f \in RequiredFields : \A i \in 1..Len(response[f]) :
        \A c \in Range(Alphabet) \ {response[f][i]} :
            ~Accepts(order, WithChar(response, f, i, c))

\* C7 as stated: for an accepted payload, changing any single character of
\* DV, or any single character of one of the nine fields, gives false.
C7_Original ==
    Done /\ out.ret =>
        /\ \A i \in 1..Len(response["DV"]) : \A c \in DVChars \ {response["DV"][i]} :
               ~Accepts(order, WithChar(response, "DV", i, c))
        /\ FieldTamperRejected

\* C7 amended: for an accepted payload, a single-character change of DV that
\* changes the bytes DV decodes to, or any single-character change of one of
\* the nine fields, gives false.
C7_TamperSensitive ==
    Done /\ out.ret =>
        /\ LET bytes == hexDecode(response["DV"]) IN
           \A i \in 1..Len(response["DV"]) : \A c \in DVChars \ {response["DV"][i]} :
               LET r2 == WithChar(response, "DV", i, c) IN
               hexDecode(r2["DV"]) # bytes => ~Accepts(order, r2)
        /\ FieldTamperRejected

\* An accepted payload whose DV is the digest itself and holds a hex letter,
\* so that both kinds of DV change exist, and whose PRN is not empty.
C7_Witness ==
    /\ Done /\ out.ret /\ response["DV"] = out.hash
    /\ \E i \in 1..Len(response["DV"]) : response["DV"][i] = "a"
    /\ Len(response["PRN"]) > 0

\* ord with entries i and j exchanged.
Swap(ord, i, j) == [ord EXCEPT ![i] = ord[j], ![j] = ord[i]]

CommaFree(v) == "," \notin Range(v)

\* The message hashed is the nine values in protocol order joined by commas.
CanonicalInOrder == Done /\ out.message # NoMessage => out.message = GatewayMessage(response)

\* C8 as stated: the canonical message is the nine values in the fixed
\* order joined by commas, and for an accepted payload exchanging any two
\* fields in the concatenation order, DV held fixed, gives false.
C8_Original ==
    /\ CanonicalInOrder
    /\ Done /\ out.ret =>
           \A i \in 1..Len(order) : \A j \in (i + 1)..Len(order) :
               ~Accepts(Swap(order, i, j), response)

\* C8 amended: the canonical message is as stated, and exchanging two fields
\* gives false whenever it changes the canonical message, which it does
\* whenever the two values differ and neither contains a comma.
C8_OrderSensitive ==
    /\ CanonicalInOrder
    /\ Done /\ out.ret =>
           \A i \in 1..Len(order) : \A j \in (i + 1)..Len(order) :
               LET swapped == Swap(order, i, j)
                   a == response[order[i]]
                   b == response[order[j]]
               IN  /\ concatenatedValues(swapped, response) # out.message
                      => ~Accepts(swapped, response)
                   /\ a # b /\ CommaFree(a) /\ CommaFree(b)
                      => concatenatedValues(swapped, response) # out.message

\* An accepted payload with two different comma-free values.
C8_Witness ==
    /\ Done /\ out.ret
    /\ response["PRN"] # response["PID"]
    /\ CommaFree(response["PRN"]) /\ CommaFree(response["PID"])
    /\ ~Accepts(Swap(order, 1, 2), response)

\* Not well-formed hex: odd length, or a character that is no hex digit.
Malformed(dv) == Len(dv) % 2 = 1 \/ \E i \in 1..Len(dv) : unhex(dv[i]) < 0

\* C9: a payload that passes the status gate and the field check and whose
\* DV is not well-formed hex (a non-hex character, or odd length) gives
\* false and an error-level log entry.
C9_MalformedHexRejected ==
    /\ Done /\ response # Null /\ secretKey # <<>> /\ RCIsSentinel(response)
    /\ RequiredFields \subseteq DOMAIN response
    /\ "DV" \in DOMAIN response /\ Malformed(response["DV"])
    => out.ret = FALSE /\ out.level = "error"

\* The payloads that carry the same DV and differ from r in at most two of
\* the nine fields.
Neighbours(r) ==
    {[r EXCEPT ![order[q[1]]] = q[3], ![order[q[2]]] = q[4]] :
        q \in {q \in (1..Len(order)) \X (1..Len(order)) \X (Values \cup RCValues)
                                   \X (Values \cup RCValues) :
                  /\ q[1] < q[2]
                  /\ q[3] \in FieldValues(order[q[1]])
                  /\ q[4] \in FieldValues(order[q[2]])}}

SameFields(r1, r2) == \A f \in RequiredFields : r1[f] = r2[f]

AllCommaFree(r) == \A f \in RequiredFields : CommaFree(r[f])

\* C10 as stated: two payloads accepted under one key and one DV have the
\* same value in each of the nine fields.
C10_Original ==
    Done /\ out.ret =>
        \A r2 \in Neighbours(response) : Accepts(order, r2) => SameFields(response, r2)

\* C10 amended: two payloads accepted under one key and one DV have the same
\* canonical message, and the same nine values when one of them has no comma
\* in any field value.
C10_AcceptanceBinds ==
    Done /\ out.ret =>
        \A r2 \in Neighbours(response) : Accepts(order, r2) =>
            /\ GatewayMessage(r2) = GatewayMessage(response)
            /\ AllCommaFree(response) \/ AllCommaFree(r2) => SameFields(response, r2)

\* Two different payloads accepted under one key and one DV.
C10_Witness ==
    /\ Done /\ out.ret
    /\ \E r2 \in Neighbours(response) : Accepts(order, r2) /\ ~SameFields(response, r2)

====
